---- MODULE Spec2Model ----
(***************************************************************************)
(* A model of the vegafusion runtime: the transform pipeline runner        *)
(* (transform/pipeline.rs), the task dispatcher (task_graph/task.rs), the  *)
(* signal task (signal/mod.rs) and the Spark SQL transpiler (sql/spark.rs).*)
(***************************************************************************)
EXTENDS Integers, Sequences, FiniteSets, TLC

(***************************************************************************)
(* Bounds of the model.                                                    *)
(***************************************************************************)
\* largest pipeline: the number of its transforms plus the number of output
\* variables they declare
MaxSize == 4

(***************************************************************************)
(* Values.                                                                 *)
(***************************************************************************)
\* vegafusion_common::data::ORDER_COL
ORDER_COL == "_vf_order"

Min(a, b) == IF a < b THEN a ELSE b

EmptyMap == [x \in {} |-> 0]

\* HashMap::insert: binds key k to v, replacing an earlier binding of k
Put(map, key, v) == [x \in (DOMAIN map) \cup {key} |-> IF x = key THEN v ELSE map[x]]

\* Variable names, and their lexicographic order
Names == {"a", "b"}
NameRank(n) == IF n = "a" THEN 1 ELSE 2

\* VariableNamespace, and the order of its members
Namespaces == {"Signal", "Data", "Scale"}
NsRank(ns) == CASE ns = "Signal" -> 0 [] ns = "Data" -> 1 [] ns = "Scale" -> 2

Var(ns, name) == [ns |-> ns, name |-> name]
Vars == {Var("Signal", "a"), Var("Signal", "b"), Var("Data", "a"), Var("Scale", "a")}

\* Ord of Variable: lexicographic by (namespace, name)
VarLess(x, y) ==
    \/ NsRank(x.ns) < NsRank(y.ns)
    \/ x.ns = y.ns /\ NameRank(x.name) < NameRank(y.name)

\* TaskValue
Scalar(v) == [tag |-> "Scalar", v |-> v]
Table(t) == [tag |-> "Table", v |-> t]
DataFrameValue(d) == [tag |-> "DataFrame", v |-> d]
TaskValues == {Scalar(1), Scalar(2), Table(1), DataFrameValue(1)}

\* Result
Ok(x) == [kind |-> "Ok", val |-> x]
Err(e) == [kind |-> "Err", err |-> e]
Panic(e) == [kind |-> "Panic", err |-> e]
NoResult == [kind |-> "None"]

\* TaskValue::as_scalar
as_scalar(val) == IF val.tag = "Scalar" THEN Ok(val.v) ELSE Err("NotScalar")

\* a DataFrame held in data_scope: the one a transform handed over, or the scan of a
\* table registered with the session context
ScopeDf(src, id) == [src |-> src, id |-> id]

\* the carrier DataFrame: its schema's columns and the operations of its plan
Df(columns, ops) == [columns |-> columns, ops |-> ops]
InputDfs == {Df({ORDER_COL, "value"}, <<>>), Df({"value"}, <<>>)}

\* a runner that does not check the order column
MissingOrderColUnchecked(df) == FALSE

\* schema().inner().column_with_name(ORDER_COL).is_none()
MissingOrderCol(df) == ORDER_COL \notin df.columns

TxOp(i) == [op |-> "transform", idx |-> i]
SortOp(col, asc, nulls_first) ==
    [op |-> "sort", col |-> col, asc |-> asc, nulls_first |-> nulls_first]

\* DataFrame::sort
SortDf(df, sort) ==
    IF sort.col \in df.columns THEN Ok(Df(df.columns, Append(df.ops, sort)))
    ELSE Err("SortColumnNotFound")

\* CompilationConfig
Config(signal_scope, data_scope) == [signal_scope |-> signal_scope, data_scope |-> data_scope]
CallerConfigs ==
    {Config(EmptyMap, EmptyMap),
     Config("a" :> 9, "a" :> ScopeDf("Table", 9))}

\* the output_vars a transform can declare
RECURSIVE VarLists(_)
VarLists(n) ==
    IF n = 0 THEN {<<>>}
    ELSE LET shorter == VarLists(n - 1)
         IN shorter \cup {Append(vs, v) : vs \in {s \in shorter : Len(s) = n - 1}, v \in Vars}

Transform(output_vars) == [output_vars |-> output_vars]

\* TransformPipeline: the pipelines of at most the given size
RECURSIVE Pipelines(_)
Pipelines(size) ==
    IF size = 0 THEN {<<>>}
    ELSE {<<>>} \cup
         UNION {{<<Transform(vs)>> \o rest : rest \in Pipelines(size - 1 - Len(vs))}
                : vs \in VarLists(size - 1)}

\* what TransformTrait::eval can return for the transform at position i on input df:
\* an error, or a DataFrame derived from df (which keeps or loses the order column)
\* with nvals emitted values
TxResults(df, i, tx) ==
    {Err("TransformError")} \cup
    {Ok([df |-> Df(cols, Append(df.ops, TxOp(i))), nvals |-> m]) :
        cols \in {df.columns, df.columns \ {ORDER_COL}},
        m \in 0..(Len(tx.output_vars) + 1)}

(***************************************************************************)
(* State.                                                                  *)
(***************************************************************************)
VARIABLES
    pc,              \* "idle", "loop", "built", "returned", "panicked"
    callerCfg,       \* the caller's CompilationConfig (the `config` argument)
    pipeline,        \* the pipeline being run (`self`)
    sql_df,          \* the `dataframe` argument
    result_sql_df,   \* build_dataframe: let mut result_sql_df
    result_outputs,  \* build_dataframe: let mut result_outputs
    config,          \* build_dataframe: let mut config
    k,               \* number of transforms of the for loop evaluated so far
    nvals,           \* length of tx_result.1 of the transform evaluated last
    bound,           \* pairs of the zip of the transform evaluated last consumed so far
    buildRes,        \* what build_dataframe returned
    signal_vars,     \* the variables of the sorted outputs (dropped by unzip)
    ret,             \* what eval_sql / eval_to_df returned to the caller
    evalLog,         \* history: one entry per call of tx.eval in this run
    emitted,         \* history: the (var, val) pairs the zip produced in this run
    earlier,         \* history: an earlier run with this caller's config wrote to its scope
    task,            \* the Task that eval and plan are called on
    values,          \* the `values` argument of eval and plan
    tz_config,       \* the `tz_config` argument of eval and plan
    env,             \* what the handlers of a data task meet: whether its plan can
                     \* be built and whether the executor materializes it
    evalOut,         \* what Task::eval returned
    planOut,         \* what Task::plan returned
    sqlpc,           \* logical_plan_to_spark_sql: "idle", "called", "rewritten",
                     \* "unparsed", "numbered", "floated", "returned"
    logical_plan,    \* the `plan` argument
    processed_plan,  \* let processed_plan
    unparsed,        \* the statement the unparser returned
    numbered,        \* the statement after rewrite_row_number
    statement,       \* the statement after rewrite_inf_and_nan
    sqlOut,          \* what logical_plan_to_spark_sql returned
    again            \* what the rewrites return when applied to their own results

pipeVars == <<pc, callerCfg, pipeline, sql_df, result_sql_df, result_outputs, config,
              k, nvals, bound, buildRes, signal_vars, ret, evalLog, emitted, earlier>>

taskVars == <<task, values, tz_config, env, evalOut, planOut>>

sqlVars == <<sqlpc, logical_plan, processed_plan, unparsed, numbered, statement,
             sqlOut, again>>

vars == <<pipeVars, taskVars, sqlVars>>

NoDf == Df({}, <<>>)

\* a loop that visits every declared variable, whatever the number of values
PairsOfDeclared == IF k = 0 THEN 0 ELSE Len(pipeline[k].output_vars)

\* number of (var, val) pairs of the zip of the transform evaluated last
Pairs == IF k = 0 THEN 0 ELSE Min(Len(pipeline[k].output_vars), nvals)

\* TaskPlan
PlanScalar(v) == [plan |-> "Scalar", v |-> v]
Plan(p) == [plan |-> "Plan", v |-> p]

\* Option<RuntimeTzConfig>: none, or the offset of the local timezone
NoTz == [tz |-> "None"]
Tz(offset) == [tz |-> "Some", offset |-> offset]
TzConfigs == {NoTz, Tz(0), Tz(5)}

\* the expression of a signal task (Option<Expression>)
NoExpr == [node |-> "None"]
Lit(v) == [node |-> "Lit", v |-> v]
Ident(name) == [node |-> "Ident", name |-> name]
Member(field) == [node |-> "Member", name |-> field]
CallFn(fn) == [node |-> "Call", name |-> fn]
Exprs == {Lit(1), Ident("a"), Ident("b"), Member("value"), CallFn("timezoneoffset"),
          CallFn("nosuch")}

\* task::TaskKind
ValueTask(literal) == [kind |-> "Value", value |-> literal]
SignalTask(expr, input_vars) == [kind |-> "Signal", expr |-> expr, input_vars |-> input_vars]
DataTask(kind) == [kind |-> kind]

\* the literal of a Value task (proto TaskValue): a scalar, a table, or one with no data
Literals == {[data |-> "Scalar", v |-> 1], [data |-> "Table", v |-> 1], [data |-> "None"]}

NoEnv == [builds |-> TRUE, executes |-> TRUE]
Envs == [builds : BOOLEAN, executes : BOOLEAN]

\* the calls of a task's handlers the model draws: the task, its input values, the
\* timezone config and what the data handlers meet
TaskCalls ==
    {[task |-> ValueTask(l), values |-> <<>>, tz_config |-> tz, env |-> NoEnv] :
        l \in Literals, tz \in {NoTz}}
    \cup {[task |-> SignalTask(e, <<>>), values |-> <<>>, tz_config |-> tz, env |-> NoEnv] :
        e \in Exprs \cup {NoExpr}, tz \in TzConfigs}
    \cup {[task |-> SignalTask(e, <<Var("Signal", "a")>>), values |-> <<Scalar(v)>>,
           tz_config |-> tz, env |-> NoEnv] :
        e \in Exprs, v \in {1, 2}, tz \in {NoTz, Tz(5)}}
    \cup {[task |-> DataTask(kd), values |-> <<>>, tz_config |-> NoTz, env |-> en] :
        kd \in {"DataUrl", "DataValues", "DataSource"}, en \in Envs}

PipeInit ==
    /\ pc = "idle"
    /\ callerCfg \in CallerConfigs
    /\ pipeline = <<>>
    /\ sql_df = NoDf
    /\ result_sql_df = NoDf
    /\ result_outputs = EmptyMap
    /\ config = Config(EmptyMap, EmptyMap)
    /\ k = 0
    /\ nvals = 0
    /\ bound = 0
    /\ buildRes = NoResult
    /\ signal_vars = <<>>
    /\ ret = NoResult
    /\ evalLog = <<>>
    /\ emitted = <<>>
    /\ earlier = FALSE

\* no task handler is called while the pipeline runner is observed
\* no LogicalPlan and no Statement
NoPlan == [node |-> "None"]
NoStatement == [body |-> "None"]

\* logical_plan_to_spark_sql is not called
SqlIdle ==
    /\ sqlpc = "idle"
    /\ logical_plan = NoPlan
    /\ processed_plan = NoPlan
    /\ unparsed = NoStatement
    /\ numbered = NoStatement
    /\ statement = NoStatement
    /\ sqlOut = NoResult
    /\ again = NoResult

Init ==
    /\ PipeInit
    /\ SqlIdle
    /\ task = ValueTask([data |-> "None"])
    /\ values = <<>>
    /\ tz_config = NoTz
    /\ env = NoEnv
    /\ evalOut = NoResult
    /\ planOut = NoResult

(***************************************************************************)
(* build_dataframe, step by step.                                          *)
(***************************************************************************)
\* let mut config = config.clone()
CloneConfig(c) == c

\* a runner that writes to the caller's config in place
CallerViewShared(caller, written) == written

\* the caller's config after the run wrote `written` to its own config: build_dataframe
\* borrows the caller's config immutably and writes to its clone only
CallerView(caller, written) == caller

\* a map that keeps the first binding of a key (entry().or_insert())
InsertOutputKeepFirst(outputs, var, val) ==
    IF var \in DOMAIN outputs THEN outputs ELSE Put(outputs, var, val)

\* result_outputs.insert(var.clone(), val.clone())
InsertOutput(outputs, var, val) == Put(outputs, var, val)

\* a runner that collects the outputs and leaves the scope alone
BindScopeNoWrite(cfg, var, val, registered) ==
    CASE var.ns = "Signal" -> IF as_scalar(val).kind = "Ok" THEN Ok(cfg) ELSE as_scalar(val)
      [] var.ns = "Data" ->
            CASE val.tag = "DataFrame" -> Ok(cfg)
              [] val.tag = "Table" -> IF registered THEN Ok(cfg) ELSE Err("RegisterTable")
              [] OTHER -> Panic("unimplemented")
      [] var.ns = "Scale" -> Panic("unimplemented")

\* a runner that binds whatever value a Data variable gets
BindScopeAnyData(cfg, var, val, registered) ==
    CASE var.ns = "Signal" ->
            LET s == as_scalar(val)
            IN IF s.kind = "Ok"
               THEN Ok([cfg EXCEPT !.signal_scope = Put(@, var.name, s.val)])
               ELSE s
      [] var.ns = "Data" ->
            IF val.tag = "Table" /\ ~registered THEN Err("RegisterTable")
            ELSE Ok([cfg EXCEPT !.data_scope = Put(@, var.name, ScopeDf(val.tag, val.v))])
      [] var.ns = "Scale" -> Panic("unimplemented")

\* match var.ns() { ... }: the config with the output bound in its scope, an error
\* or a panic. registered tells whether ctx.vegafusion_table(table) succeeds
BindScope(cfg, var, val, registered) ==
    CASE var.ns = "Signal" ->
            LET s == as_scalar(val)
            IN IF s.kind = "Ok"
               THEN Ok([cfg EXCEPT !.signal_scope = Put(@, var.name, s.val)])
               ELSE s
      [] var.ns = "Data" ->
            CASE val.tag = "DataFrame" ->
                    Ok([cfg EXCEPT !.data_scope = Put(@, var.name, ScopeDf("DataFrame", val.v))])
              [] val.tag = "Table" ->
                    IF registered
                    THEN Ok([cfg EXCEPT !.data_scope = Put(@, var.name, ScopeDf("Table", val.v))])
                    ELSE Err("RegisterTable")
              [] OTHER -> Panic("unimplemented")
      [] var.ns = "Scale" -> Panic("unimplemented")

\* the sort of the end of the run: expr::Sort { expr: flat_col(ORDER_COL), asc: true,
\* nulls_first: false }
FinalSort == SortOp(ORDER_COL, TRUE, FALSE)

\* a runner that returns the DataFrame of the last transform as it is
FinalDfUnsorted(df) == Ok(df)

\* result_sql_df.sort(vec![...])
FinalDf(df) == SortDf(df, FinalSort)

\* result_sql_df = tx_result.0
CarryDf(df) == df

\* result_outputs.into_iter(): the keys in an order the HashMap chooses
IterOrders(outputs) ==
    {s \in [1..Cardinality(DOMAIN outputs) -> DOMAIN outputs] :
        \A i, j \in DOMAIN s : i # j => s[i] # s[j]}

\* x put into the sorted sequence s after every element that is not greater
InsertByKey(s, x) ==
    LET n == Cardinality({i \in DOMAIN s : ~VarLess(x, s[i])})
    IN SubSeq(s, 1, n) \o <<x>> \o SubSeq(s, n + 1, Len(s))

\* a runner that returns the outputs in the order the map iterates them
RECURSIVE iteration_order(_)
iteration_order(s) ==
    IF s = <<>> THEN <<>>
    ELSE Append(iteration_order(SubSeq(s, 1, Len(s) - 1)), s[Len(s)])

\* .sorted_by_key(|(k, _v)| k.clone()): the stable sort of the keys
RECURSIVE sorted_by_key(_)
sorted_by_key(s) ==
    IF s = <<>> THEN <<>>
    ELSE InsertByKey(sorted_by_key(SubSeq(s, 1, Len(s) - 1)), s[Len(s)])

\* a runner that skips a transform whose eval fails
EvalStepSkipFailed(input, res) ==
    IF res.kind = "Err" THEN Ok([df |-> input, nvals |-> 0])
    ELSE IF MissingOrderCol(CarryDf(res.val.df)) THEN Err("MissingOrderColumnOutput")
    ELSE Ok([df |-> CarryDf(res.val.df), nvals |-> res.val.nvals])

\* tx.eval(...).await? and the check of its output: the step's DataFrame and number
\* of values, or the error build_dataframe returns
EvalStep(input, res) ==
    IF res.kind = "Err" THEN res
    ELSE IF MissingOrderCol(CarryDf(res.val.df)) THEN Err("MissingOrderColumnOutput")
    ELSE Ok([df |-> CarryDf(res.val.df), nvals |-> res.val.nvals])

\* build_dataframe returns Err(e)
Fail(e) ==
    /\ pc' = "built"
    /\ buildRes' = Err(e)

\* eval_sql or eval_to_df is called: build_dataframe up to the for loop
Call ==
    /\ pc = "idle"
    /\ \E p \in Pipelines(MaxSize), df \in InputDfs :
        /\ pipeline' = p
        /\ sql_df' = df
        /\ result_sql_df' = df
        /\ IF MissingOrderCol(df)
           THEN Fail("MissingOrderColumnInput")
           ELSE pc' = "loop" /\ UNCHANGED buildRes
    /\ result_outputs' = EmptyMap
    /\ config' = CloneConfig(callerCfg)
    /\ UNCHANGED <<callerCfg, k, nvals, bound, signal_vars, ret, evalLog, emitted, earlier>>

\* one iteration of the for loop up to the zip: tx.eval and the check of its output
TxEval ==
    /\ pc = "loop"
    /\ bound = Pairs
    /\ k < Len(pipeline)
    /\ \E res \in TxResults(result_sql_df, k + 1, pipeline[k + 1]) :
        /\ evalLog' = Append(evalLog, [tx |-> k + 1, input |-> result_sql_df,
                                       config |-> config, res |-> res,
                                       before |-> Len(emitted)])
        /\ LET step == EvalStep(result_sql_df, res)
           IN IF step.kind = "Err"
              THEN /\ Fail(step.err)
                   /\ UNCHANGED <<result_sql_df, k, nvals, bound>>
              ELSE /\ result_sql_df' = step.val.df
                   /\ k' = k + 1
                   /\ nvals' = step.val.nvals
                   /\ bound' = 0
                   /\ UNCHANGED <<pc, buildRes>>
    /\ UNCHANGED <<callerCfg, pipeline, sql_df, result_outputs, config,
                   signal_vars, ret, emitted, earlier>>

\* one iteration of the zip loop: the next declared variable with the next emitted
\* value (drawn here, where the loop reads it: a value the zip does not reach is
\* never read)
BindOutput ==
    /\ pc = "loop"
    /\ bound < Pairs
    /\ \E val \in TaskValues, registered \in BOOLEAN :
        LET var == pipeline[k].output_vars[bound + 1]
            b == BindScope(config, var, val, registered)
        IN /\ (var.ns = "Data" /\ val.tag = "Table") \/ registered
           /\ result_outputs' = InsertOutput(result_outputs, var, val)
           /\ emitted' = Append(emitted, [tx |-> k, var |-> var, val |-> val,
                                         registered |-> registered])
           /\ CASE b.kind = "Ok" ->
                    /\ config' = b.val
                    /\ callerCfg' = CallerView(callerCfg, b.val)
                    /\ bound' = bound + 1
                    /\ UNCHANGED <<pc, buildRes>>
                [] b.kind = "Err" ->
                    /\ Fail(b.err)
                    /\ UNCHANGED <<config, callerCfg, bound>>
                [] b.kind = "Panic" ->
                    /\ pc' = "panicked"
                    /\ buildRes' = b
                    /\ UNCHANGED <<config, callerCfg, bound>>
    /\ UNCHANGED <<pipeline, sql_df, result_sql_df, k, nvals, signal_vars, ret,
                   evalLog, earlier>>

\* after the for loop: the final sort and the outputs sorted by variable
Finish ==
    /\ pc = "loop"
    /\ bound = Pairs
    /\ k = Len(pipeline)
    /\ \E order \in IterOrders(result_outputs) :
        LET sorted == FinalDf(result_sql_df)
            keys == sorted_by_key(order)
        IN IF sorted.kind = "Err"
           THEN /\ Fail(sorted.err)
                /\ UNCHANGED <<result_sql_df, signal_vars>>
           ELSE /\ result_sql_df' = sorted.val
                /\ signal_vars' = keys
                /\ buildRes' = Ok([df |-> sorted.val,
                                   signals |-> [i \in DOMAIN keys |-> result_outputs[keys[i]]]])
                /\ pc' = "built"
    /\ UNCHANGED <<callerCfg, pipeline, sql_df, result_outputs, config, k, nvals,
                   bound, ret, evalLog, emitted, earlier>>

\* nothing materialized the plan
NotMaterialized == "none"

\* result_df.collect_to_table(): the DataFrame runs its own plan
CollectToTable == "DataFrame::collect_to_table"

\* the table a plan materializes to
Collected(df) == [rows_of |-> df]

\* eval_to_df: what build_dataframe returned, as it is
eval_to_df_result(build) == build

\* an eval_sql that returns the table without the signals
eval_sql_no_signals(build, collected) ==
    IF build.kind = "Err" THEN build
    ELSE IF collected THEN Ok([table |-> Collected(build.val.df), signals |-> <<>>])
    ELSE Err("Collect")

\* eval_sql: build_dataframe(...).await?, collect_to_table().await?, Ok((table, signals))
eval_sql_result(build, collected) ==
    IF build.kind = "Err" THEN build
    ELSE IF collected THEN Ok([table |-> Collected(build.val.df), signals |-> build.val.signals])
    ELSE Err("Collect")

\* eval_to_df returns what build_dataframe returned
eval_to_df ==
    /\ pc = "built"
    /\ pc' = "returned"
    /\ ret' = [entry |-> "eval_to_df", res |-> eval_to_df_result(buildRes),
               materialized_by |-> NotMaterialized]
    /\ UNCHANGED <<callerCfg, pipeline, sql_df, result_sql_df, result_outputs,
                   config, k, nvals, bound, buildRes, signal_vars, evalLog, emitted,
                   earlier>>

\* eval_sql materializes the DataFrame build_dataframe returned
eval_sql ==
    /\ pc = "built"
    /\ pc' = "returned"
    /\ \E collected \in BOOLEAN :
        /\ buildRes.kind = "Ok" \/ collected
        /\ ret' = [entry |-> "eval_sql",
                   res |-> eval_sql_result(buildRes, collected),
                   materialized_by |-> IF buildRes.kind = "Ok" THEN CollectToTable
                                       ELSE NotMaterialized]
    /\ UNCHANGED <<callerCfg, pipeline, sql_df, result_sql_df, result_outputs,
                   config, k, nvals, bound, buildRes, signal_vars, evalLog, emitted,
                   earlier>>

\* the run is over and its locals are dropped; the caller keeps its config
Drop ==
    /\ pc = "returned"
    /\ pc' = "idle"
    /\ pipeline' = <<>>
    /\ sql_df' = NoDf
    /\ result_sql_df' = NoDf
    /\ result_outputs' = EmptyMap
    /\ config' = Config(EmptyMap, EmptyMap)
    /\ k' = 0
    /\ nvals' = 0
    /\ bound' = 0
    /\ buildRes' = NoResult
    /\ signal_vars' = <<>>
    /\ ret' = NoResult
    /\ evalLog' = <<>>
    /\ emitted' = <<>>
    /\ earlier' = (earlier \/ config # callerCfg)
    /\ UNCHANGED callerCfg

Next ==
    \/ Call /\ UNCHANGED <<taskVars, sqlVars>>
    \/ TxEval /\ UNCHANGED <<taskVars, sqlVars>>
    \/ BindOutput /\ UNCHANGED <<taskVars, sqlVars>>
    \/ Finish /\ UNCHANGED <<taskVars, sqlVars>>
    \/ eval_to_df /\ UNCHANGED <<taskVars, sqlVars>>
    \/ eval_sql /\ UNCHANGED <<taskVars, sqlVars>>
    \/ Drop /\ UNCHANGED <<taskVars, sqlVars>>

Spec == Init /\ [][Next]_vars

(***************************************************************************)
(* The task handlers: Task::eval and Task::plan.                           *)
(***************************************************************************)
\* build_compilation_config(&input_vars, values, tz_config): the scope of the inputs
build_compilation_config(input_vars, vals, tz) ==
    [signal_scope |->
        [n \in {input_vars[i].name : i \in {j \in 1..Min(Len(input_vars), Len(vals)) :
                                               input_vars[j].ns = "Signal"}} |->
            LET i == CHOOSE j \in 1..Min(Len(input_vars), Len(vals)) :
                        /\ input_vars[j] = Var("Signal", n)
                        /\ \A j2 \in 1..Min(Len(input_vars), Len(vals)) :
                                input_vars[j2] = Var("Signal", n) => j2 <= j
            IN vals[i].v],
     data_scope |-> EmptyMap,
     tz |-> tz]

\* compile(expression, &config, None): an identifier resolves against signal_scope to
\* a literal and is unbound otherwise (there is no carrier schema); a call of a
\* function outside the catalog fails; timezoneoffset needs a timezone config
compile(expr, cfg) ==
    CASE expr.node = "Lit" -> Ok(expr)
      [] expr.node = "Ident" ->
            IF expr.name \in DOMAIN cfg.signal_scope
            THEN Ok(Lit(cfg.signal_scope[expr.name]))
            ELSE Err("UnboundIdentifier")
      [] expr.node = "Member" -> Ok(expr)
      [] expr.node = "Call" ->
            IF expr.name = "timezoneoffset"
            THEN IF cfg.tz.tz = "Some" THEN Ok(Lit(cfg.tz.offset)) ELSE Err("NoTimezone")
            ELSE Err("UnknownFunction")

\* eval_to_scalar: folds a constant expression
eval_to_scalar(compiled) ==
    IF compiled.node = "Lit" THEN Ok(compiled.v) ELSE Err("NotConstant")

\* eval_signal_to_scalar_value
eval_signal_to_scalar_value(signal_task, vals, tz) ==
    LET cfg == build_compilation_config(signal_task.input_vars, vals, tz)
    IN IF signal_task.expr = NoExpr THEN Panic("unwrap")
       ELSE LET expr == compile(signal_task.expr, cfg)
            IN IF expr.kind = "Err" THEN expr ELSE eval_to_scalar(expr.val)

\* impl TaskCall for SignalTask: eval
SignalTask_eval(signal_task, vals, tz) ==
    LET value == eval_signal_to_scalar_value(signal_task, vals, tz)
    IN IF value.kind = "Ok" THEN Ok(<<Scalar(value.val), <<>>>>) ELSE value

\* a plan that compiles the signal without the timezone config
SignalTask_plan_no_tz(signal_task, vals, tz) ==
    LET value == eval_signal_to_scalar_value(signal_task, vals, NoTz)
    IN IF value.kind = "Ok" THEN Ok(<<PlanScalar(value.val), <<>>>>) ELSE value

\* impl TaskCall for SignalTask: plan
SignalTask_plan(signal_task, vals, tz) ==
    LET value == eval_signal_to_scalar_value(signal_task, vals, tz)
    IN IF value.kind = "Ok" THEN Ok(<<PlanScalar(value.val), <<>>>>) ELSE value

\* TryFrom<&ProtoTaskValue> for TaskValue
try_into(literal) ==
    CASE literal.data = "Scalar" -> Ok(Scalar(literal.v))
      [] literal.data = "Table" -> Ok(Table(literal.v))
      [] OTHER -> Err("NoData")

\* eval of the DataUrl, DataValues and DataSource tasks: builds the plan of the
\* dataset and materializes it
DataTask_eval(data_task, vals, tz, en) ==
    IF ~en.builds THEN Err("Build")
    ELSE IF ~en.executes THEN Err("Executor")
    ELSE Ok(<<Table(1), <<>>>>)

\* plan of the DataUrl, DataValues and DataSource tasks: builds the plan of the
\* dataset and returns it
DataTask_plan(data_task, vals, tz, en) ==
    IF ~en.builds THEN Err("Build") ELSE Ok(<<Plan(1), <<>>>>)

\* impl TaskCall for Task: eval
Task_eval(t, vals, tz, en) ==
    CASE t.kind = "Value" ->
            LET v == try_into(t.value)
            IN IF v.kind = "Ok" THEN Ok(<<v.val, <<>>>>) ELSE v
      [] t.kind = "Signal" -> SignalTask_eval(t, vals, tz)
      [] OTHER -> DataTask_eval(t, vals, tz, en)

\* impl TaskCall for Task: plan
Task_plan(t, vals, tz, en) ==
    CASE t.kind = "Value" ->
            LET task_value == try_into(t.value)
            IN IF task_value.kind = "Err" THEN task_value
               ELSE IF task_value.val.tag = "Scalar"
               THEN Ok(<<PlanScalar(task_value.val.v), <<>>>>)
               ELSE Err("Cannot convert Table TaskValue to TaskPlan")
      [] t.kind = "Signal" -> SignalTask_plan(t, vals, tz)
      [] OTHER -> DataTask_plan(t, vals, tz, en)

\* a caller has a task, its input values and a timezone config at hand
TaskInit ==
    /\ PipeInit
    /\ SqlIdle
    /\ callerCfg = Config(EmptyMap, EmptyMap)
    /\ \E c \in TaskCalls :
        /\ task = c.task
        /\ values = c.values
        /\ tz_config = c.tz_config
        /\ env = c.env
    /\ evalOut = NoResult
    /\ planOut = NoResult

\* the caller calls Task::eval
TaskEval ==
    /\ evalOut = NoResult
    /\ evalOut' = Task_eval(task, values, tz_config, env)
    /\ UNCHANGED <<task, values, tz_config, env, planOut>>

\* the caller calls Task::plan
TaskPlan ==
    /\ planOut = NoResult
    /\ planOut' = Task_plan(task, values, tz_config, env)
    /\ UNCHANGED <<task, values, tz_config, env, evalOut>>

TaskNext ==
    \/ TaskEval /\ UNCHANGED <<pipeVars, sqlVars>>
    \/ TaskPlan /\ UNCHANGED <<pipeVars, sqlVars>>

TaskSpec == TaskInit /\ [][TaskNext]_vars

(***************************************************************************)
(* The Spark SQL transpiler (sql/spark.rs): logical plans.                 *)
(***************************************************************************)
\* the most plan nodes stacked on a scan
MaxPlanDepth == 3

\* Column { relation, name }; relation is NoRelation for an unqualified column
NoRelation == "None"
Column(relation, name) == [e |-> "Column", relation |-> relation, name |-> name]

\* Column::from_name(c.name.clone())
from_name(name) == Column(NoRelation, name)

\* the other expressions of a plan the model draws
Literal(text) == [e |-> "Literal", text |-> text]
BinaryExpr(left, right) == [e |-> "BinaryExpr", left |-> left, right |-> right]
ScalarFunction(args) == [e |-> "ScalarFunction", args |-> args]
WindowFunction(name, partition_by) ==
    [e |-> "WindowFunction", name |-> name, partition_by |-> partition_by]
ScalarSubquery(subquery) == [e |-> "ScalarSubquery", subquery |-> subquery]

\* LogicalPlan
TableScan(table) == [node |-> "TableScan", table |-> table]
Join(left, right) == [node |-> "Join", left |-> left, right |-> right]
Extension == [node |-> "Extension"]
Filter(predicate, input) == [node |-> "Filter", expr |-> <<predicate>>, input |-> input]
Projection(expr, input) == [node |-> "Projection", expr |-> expr, input |-> input]

\* the columns of the tables of the model
TableColumns(table) == IF table = "t" THEN {"c", "d"} ELSE {"c"}

\* the fields of the schema of a plan, each with its qualifier
RECURSIVE Fields(_)
Fields(p) ==
    CASE p.node = "TableScan" ->
            {[relation |-> p.table, name |-> n] : n \in TableColumns(p.table)}
      [] p.node = "Join" -> Fields(p.left) \cup Fields(p.right)
      [] p.node = "Extension" -> {[relation |-> "x", name |-> "c"]}
      [] p.node = "Filter" -> Fields(p.input)
      [] p.node = "Projection" ->
            {[relation |-> p.expr[i].relation, name |-> p.expr[i].name] :
                i \in {j \in DOMAIN p.expr : p.expr[j].e = "Column"}}

\* the columns an expression refers to, those of its subqueries left out
RECURSIVE ColumnsOf(_)
ColumnsOf(x) ==
    CASE x.e = "Column" -> {x}
      [] x.e = "BinaryExpr" -> ColumnsOf(x.left) \cup ColumnsOf(x.right)
      [] x.e = "ScalarFunction" -> UNION {ColumnsOf(x.args[i]) : i \in DOMAIN x.args}
      [] x.e = "WindowFunction" ->
            UNION {ColumnsOf(x.partition_by[i]) : i \in DOMAIN x.partition_by}
      [] OTHER -> {}

\* a column resolves in a schema: a qualified one to the field of its qualifier and
\* name, an unqualified one to the only field of its name (or the only unqualified one)
Resolves(c, fields) ==
    IF c.relation # NoRelation
    THEN [relation |-> c.relation, name |-> c.name] \in fields
    ELSE LET named == {f \in fields : f.name = c.name}
         IN \/ Cardinality(named) = 1
            \/ Cardinality({f \in named : f.relation = NoRelation}) = 1

\* the expressions of a node resolve in the schema of its input
ExprsResolve(exprs, input) ==
    \A i \in DOMAIN exprs : \A c \in ColumnsOf(exprs[i]) : Resolves(c, Fields(input))

\* the first error of a sequence of results, or the sequence of their values
AllOk(rs) ==
    IF \E i \in DOMAIN rs : rs[i].kind = "Err"
    THEN rs[CHOOSE i \in DOMAIN rs :
                /\ rs[i].kind = "Err"
                /\ \A j \in 1..(i - 1) : rs[j].kind = "Ok"]
    ELSE Ok([i \in DOMAIN rs |-> rs[i].val])

\* e.clone().transform_up(...): every Column of the expression loses its qualifier;
\* the plan of a subquery is not a child of the expression
RECURSIVE strip_qualifiers(_)
strip_qualifiers(x) ==
    CASE x.e = "Column" -> from_name(x.name)
      [] x.e = "BinaryExpr" ->
            BinaryExpr(strip_qualifiers(x.left), strip_qualifiers(x.right))
      [] x.e = "ScalarFunction" ->
            ScalarFunction([i \in DOMAIN x.args |-> strip_qualifiers(x.args[i])])
      [] x.e = "WindowFunction" ->
            WindowFunction(x.name,
                [i \in DOMAIN x.partition_by |-> strip_qualifiers(x.partition_by[i])])
      [] OTHER -> x

\* p.with_new_exprs(rewritten_exprs, vec![input.clone()]): the projection is built
\* again, which computes its schema from the schema of its input
with_new_exprs(exprs, input) ==
    IF ExprsResolve(exprs, input) THEN Ok(Projection(exprs, input))
    ELSE Err("SchemaError")

\* a closure that strips the columns at the top of the expressions only
rewrite_projection_top_columns(p) ==
    IF p.node = "Projection" /\ p.input.node = "Projection"
    THEN with_new_exprs([i \in DOMAIN p.expr |->
                            IF p.expr[i].e = "Column" THEN from_name(p.expr[i].name)
                            ELSE p.expr[i]],
                        p.input)
    ELSE Ok(p)

\* the closure of rewrite_subquery_column_identifiers: a projection whose input is a
\* projection gets its expressions without qualifiers, any other node is left alone
rewrite_projection(p) ==
    IF p.node = "Projection" /\ p.input.node = "Projection"
    THEN with_new_exprs([i \in DOMAIN p.expr |-> strip_qualifiers(p.expr[i])], p.input)
    ELSE Ok(p)

\* plan.transform_up_with_subqueries(closure): the inputs of the node first, then the
\* plans of the subqueries of its expressions, then the node itself
RECURSIVE transform_up_with_subqueries(_), map_subqueries(_)
map_subqueries(x) ==
    CASE x.e = "ScalarSubquery" ->
            LET r == transform_up_with_subqueries(x.subquery)
            IN IF r.kind = "Err" THEN r ELSE Ok(ScalarSubquery(r.val))
      [] x.e = "BinaryExpr" ->
            LET r == AllOk(<<map_subqueries(x.left), map_subqueries(x.right)>>)
            IN IF r.kind = "Err" THEN r ELSE Ok(BinaryExpr(r.val[1], r.val[2]))
      [] x.e = "ScalarFunction" ->
            LET r == AllOk([i \in DOMAIN x.args |-> map_subqueries(x.args[i])])
            IN IF r.kind = "Err" THEN r ELSE Ok(ScalarFunction(r.val))
      [] OTHER -> Ok(x)

transform_up_with_subqueries(p) ==
    IF p.node \in {"TableScan", "Extension"} THEN rewrite_projection(p)
    ELSE IF p.node = "Join"
    THEN LET r == AllOk(<<transform_up_with_subqueries(p.left),
                          transform_up_with_subqueries(p.right)>>)
         IN IF r.kind = "Err" THEN r ELSE rewrite_projection(Join(r.val[1], r.val[2]))
    ELSE LET input == transform_up_with_subqueries(p.input)
         IN IF input.kind = "Err" THEN input
            ELSE LET exprs == AllOk([i \in DOMAIN p.expr |-> map_subqueries(p.expr[i])])
                 IN IF exprs.kind = "Err" THEN exprs
                    ELSE rewrite_projection([p EXCEPT !.input = input.val,
                                                      !.expr = exprs.val])

\* rewrite_subquery_column_identifiers: the failure is reported as an unparser error
rewrite_subquery_column_identifiers(p) ==
    LET r == transform_up_with_subqueries(p)
    IN IF r.kind = "Err"
       THEN Err([error |-> "unparser",
                 message |-> "Failed to rewrite subquery column identifiers", cause |-> r.err])
       ELSE r

\* the plans of the subqueries the model draws
SubqueryPlans ==
    {Projection(<<Column("u", "c")>>, Projection(<<Column("u", "c")>>, TableScan("u")))}

\* the expressions of the projections and the predicates of the filters the model draws
ProjectionExprs ==
    {<<Column("t", "c")>>,
     <<Column("t", "c"), Column("t", "d")>>,
     <<Column("t", "c"), Column("u", "c")>>,
     <<Column(NoRelation, "d")>>,
     <<ScalarFunction(<<Column("t", "d")>>), Column("t", "c")>>,
     <<WindowFunction("row_number", <<Column("t", "d")>>), Literal("NaN")>>}
  \cup {<<ScalarSubquery(q), Column("t", "c")>> : q \in SubqueryPlans}
Predicates ==
    {BinaryExpr(Column("t", "c"), Literal("inf")),
     BinaryExpr(Column(NoRelation, "c"), Literal("1.5"))}

\* every column of the expressions of a node resolves in the schema of its input
ValidNode(p) == ExprsResolve(p.expr, p.input)

\* the plans of at most d nodes on a scan whose columns resolve
RECURSIVE PlansOfDepth(_)
PlansOfDepth(d) ==
    IF d = 0
    THEN {TableScan("t"), Join(TableScan("t"), TableScan("u")), Extension}
    ELSE LET inputs == PlansOfDepth(d - 1)
         IN inputs
            \cup {n \in {Filter(f, p) : f \in Predicates, p \in inputs} : ValidNode(n)}
            \cup {n \in {Projection(exprs, p) : exprs \in ProjectionExprs, p \in inputs} :
                        ValidNode(n)}

LogicalPlans == PlansOfDepth(MaxPlanDepth)

(***************************************************************************)
(* The Spark SQL transpiler (sql/spark.rs): statements.                    *)
(***************************************************************************)
\* sqlparser::ast::Expr; a function's name is the text of its ObjectName
Number(text, span) == [ast |-> "Number", text |-> text, span |-> span]
SingleQuotedString(text, span) == [ast |-> "SingleQuotedString", text |-> text, span |-> span]
Identifier(value) == [ast |-> "Identifier", value |-> value]
CompoundIdentifier(qualifier, value) ==
    [ast |-> "CompoundIdentifier", idents |-> <<qualifier, value>>]
BinaryOp(left, right) == [ast |-> "BinaryOp", left |-> left, right |-> right]
Function(name, args, over) == [ast |-> "Function", name |-> name, args |-> args, over |-> over]
Subquery(query) == [ast |-> "Subquery", query |-> query]

\* Option<WindowType>
NoOver == [window |-> "None"]
NamedWindow(name) == [window |-> "NamedWindow", name |-> name]
WindowSpec(partition_by, order_by, window_frame) ==
    [window |-> "WindowSpec", partition_by |-> partition_by, order_by |-> order_by,
     window_frame |-> window_frame]
NoFrame == "None"
UnboundedFrame == "ROWS BETWEEN UNBOUNDED PRECEDING AND UNBOUNDED FOLLOWING"

\* OrderByExpr { expr, options: OrderByOptions { asc, nulls_first }, with_fill: None }
OrderByExpr(expr, asc, nulls_first) == [expr |-> expr, asc |-> asc, nulls_first |-> nulls_first]

\* Statement::Query: a select with its items, its relation and its WHERE conjuncts
FromTable(name) == [relation |-> "Table", name |-> name]
FromJoin(left, right) == [relation |-> "Join", left |-> left, right |-> right]
Derived(subquery) == [relation |-> "Derived", subquery |-> subquery]
Select(projection, from, selection) ==
    [body |-> "Select", projection |-> projection, from |-> from, selection |-> selection]

\* str::to_lowercase, on the texts of the model
to_lowercase(str) ==
    CASE str = "NaN" -> "nan"
      [] str = "Inf" -> "inf"
      [] str = "+Infinity" -> "+infinity"
      [] str = "-INF" -> "-inf"
      [] str = "ROW_NUMBER" -> "row_number"
      [] str = "Row_Number" -> "row_number"
      [] OTHER -> str

\* a list without the signed spellings
SPECIAL_VALUES_UNSIGNED == {"nan", "inf", "infinity"}

\* const SPECIAL_VALUES
SPECIAL_VALUES == {"nan", "inf", "infinity", "+inf", "+infinity", "-inf", "-infinity"}

\* the ORDER BY rewrite_row_number gives a window
MonotonicOrder == <<OrderByExpr(Identifier("monotonically_increasing_id()"), "None", "None")>>

\* a closure that replaces the ORDER BY and keeps the frame
row_number_keep_frame(x) ==
    IF x.ast = "Function" /\ to_lowercase(x.name) = "row_number"
            /\ x.over.window = "WindowSpec"
    THEN [x EXCEPT !.over.order_by = MonotonicOrder]
    ELSE x

\* the closure of rewrite_row_number
row_number_closure(x) ==
    IF x.ast = "Function" /\ to_lowercase(x.name) = "row_number"
            /\ x.over.window = "WindowSpec"
    THEN [x EXCEPT !.over.window_frame = NoFrame, !.over.order_by = MonotonicOrder]
    ELSE x

\* a closure that keeps the literal a number inside float()
inf_and_nan_as_number(x) ==
    IF x.ast = "Number" /\ to_lowercase(x.text) \in SPECIAL_VALUES
    THEN Function("float", <<Number(x.text, x.span)>>, NoOver)
    ELSE x

\* the closure of rewrite_inf_and_nan
inf_and_nan_closure(x) ==
    IF x.ast = "Number" /\ to_lowercase(x.text) \in SPECIAL_VALUES
    THEN Function("float", <<SingleQuotedString(x.text, x.span)>>, NoOver)
    ELSE x

\* the closure a rewrite passes to visit_expressions_mut
Closure(rewrite, x) ==
    IF rewrite = "row_number" THEN row_number_closure(x) ELSE inf_and_nan_closure(x)

\* visit_expressions_mut(statement, closure): the closure is applied to every
\* expression of the statement, to an expression after the expressions inside it
RECURSIVE visit_expr(_, _), visit_query(_, _)
visit_expr(rewrite, x) ==
    Closure(rewrite,
        CASE x.ast = "BinaryOp" ->
                BinaryOp(visit_expr(rewrite, x.left), visit_expr(rewrite, x.right))
          [] x.ast = "Function" ->
                Function(x.name,
                    [i \in DOMAIN x.args |-> visit_expr(rewrite, x.args[i])],
                    IF x.over.window = "WindowSpec"
                    THEN WindowSpec(
                            [i \in DOMAIN x.over.partition_by |->
                                visit_expr(rewrite, x.over.partition_by[i])],
                            [i \in DOMAIN x.over.order_by |->
                                [x.over.order_by[i] EXCEPT !.expr = visit_expr(rewrite, @)]],
                            x.over.window_frame)
                    ELSE x.over)
          [] x.ast = "Subquery" -> Subquery(visit_query(rewrite, x.query))
          [] OTHER -> x)

visit_query(rewrite, q) ==
    Select([i \in DOMAIN q.projection |-> visit_expr(rewrite, q.projection[i])],
           IF q.from.relation = "Derived"
           THEN Derived(visit_query(rewrite, q.from.subquery))
           ELSE q.from,
           [i \in DOMAIN q.selection |-> visit_expr(rewrite, q.selection[i])])

\* fn rewrite_row_number(statement: &mut Statement)
rewrite_row_number(st) == visit_query("row_number", st)

\* fn rewrite_inf_and_nan(statement: &mut Statement)
rewrite_inf_and_nan(st) == visit_query("inf_and_nan", st)

\* the span of an expression the unparser makes
EmptySpan == 0

\* Unparser::plan_to_sql: the statement of a plan. A projection or a filter on a
\* relation that has its own select items selects from it as a derived table
RECURSIVE expr_to_sql(_), plan_to_query(_)
expr_to_sql(x) ==
    CASE x.e = "Column" ->
            IF x.relation = NoRelation THEN Identifier(x.name)
            ELSE CompoundIdentifier(x.relation, x.name)
      [] x.e = "Literal" -> Number(x.text, EmptySpan)
      [] x.e = "BinaryExpr" -> BinaryOp(expr_to_sql(x.left), expr_to_sql(x.right))
      [] x.e = "ScalarFunction" ->
            Function("abs", [i \in DOMAIN x.args |-> expr_to_sql(x.args[i])], NoOver)
      [] x.e = "WindowFunction" ->
            Function(x.name, <<>>,
                WindowSpec([i \in DOMAIN x.partition_by |-> expr_to_sql(x.partition_by[i])],
                           <<>>, UnboundedFrame))
      [] x.e = "ScalarSubquery" -> Subquery(plan_to_query(x.subquery))

plan_to_query(p) ==
    CASE p.node = "TableScan" -> Select(<<>>, FromTable(p.table), <<>>)
      [] p.node = "Join" -> Select(<<>>, FromJoin(p.left.table, p.right.table), <<>>)
      [] p.node = "Filter" ->
            LET q == plan_to_query(p.input)
            IN IF q.projection = <<>>
               THEN [q EXCEPT !.selection = Append(@, expr_to_sql(p.expr[1]))]
               ELSE Select(<<>>, Derived(q), <<expr_to_sql(p.expr[1])>>)
      [] p.node = "Projection" ->
            LET q == plan_to_query(p.input)
                items == [i \in DOMAIN p.expr |-> expr_to_sql(p.expr[i])]
            IN IF q.projection = <<>>
               THEN [q EXCEPT !.projection = items]
               ELSE Select(items, Derived(q), <<>>)

\* a plan with a node the unparser has no SQL for
RECURSIVE Unsupported(_)
Unsupported(p) ==
    \/ p.node = "Extension"
    \/ p.node \in {"Filter", "Projection"} /\ Unsupported(p.input)

\* unparser.plan_to_sql(&processed_plan).map_err(...)
plan_to_sql(p) ==
    IF Unsupported(p)
    THEN Err([error |-> "unparser",
              message |-> "Failed to generate SQL AST from logical plan",
              cause |-> "NotImplemented"])
    ELSE Ok(plan_to_query(p))

\* statement.to_string()
to_string(st) == [sql |-> st]

\* the statements the model draws besides those of its plans: numeric literals in
\* every spelling, functions with every kind of window, and both inside other
\* expressions and inside a derived table
NumberTexts == {"NaN", "Inf", "+Infinity", "-INF", "infinity", "-inf", "+inf", "1.5"}
Overs ==
    {NoOver, NamedWindow("w")}
    \cup {WindowSpec(pb, ob, fr) :
            pb \in {<<>>, <<Identifier("c")>>, <<Number("inf", 1)>>},
            ob \in {<<>>,
                    <<OrderByExpr(Identifier("c"), "true", "None")>>,
                    <<OrderByExpr(Number("NaN", 2), "None", "false"),
                      OrderByExpr(Identifier("d"), "false", "true")>>},
            fr \in {NoFrame, UnboundedFrame}}
FunctionNames == {"row_number", "ROW_NUMBER", "Row_Number", "rank", "s.row_number"}
Functions ==
    {Function(n, args, over) :
        n \in FunctionNames, args \in {<<>>, <<Number("nan", 1)>>}, over \in Overs}
NestedExprs ==
    {BinaryOp(Function("coalesce", <<f, Number(t, 2)>>, NoOver), Identifier("c")) :
        f \in {Function("ROW_NUMBER", <<>>, WindowSpec(<<Identifier("c")>>, <<>>, UnboundedFrame)),
               Function("row_number", <<>>, NoOver)},
        t \in {"-INF", "1.5"}}
    \cup {Function("row_number", <<>>,
            WindowSpec(<<Function("Row_Number", <<>>, WindowSpec(<<>>, <<>>, UnboundedFrame))>>,
                       <<>>, UnboundedFrame))}
AstExprs == {Number(t, 1) : t \in NumberTexts} \cup Functions \cup NestedExprs
Statements ==
    {Select(<<x>>, FromTable("t"), <<>>) : x \in AstExprs}
    \cup {Select(<<Identifier("c")>>,
                 Derived(Select(<<x>>, FromTable("t"), <<Subquery(Select(<<x>>, FromTable("u"), <<>>))>>)),
                 <<BinaryOp(Identifier("c"), Number("+inf", 2))>>) : x \in NestedExprs}

(***************************************************************************)
(* logical_plan_to_spark_sql, step by step.                                *)
(***************************************************************************)
\* logical_plan_to_spark_sql(plan) is called; or the rewrites of the statement are
\* run on a statement of the unparser that no plan of the model unparses to
SqlInit ==
    /\ PipeInit
    /\ callerCfg = Config(EmptyMap, EmptyMap)
    /\ task = ValueTask([data |-> "None"])
    /\ values = <<>>
    /\ tz_config = NoTz
    /\ env = NoEnv
    /\ evalOut = NoResult
    /\ planOut = NoResult
    /\ \/ sqlpc = "called" /\ logical_plan \in LogicalPlans /\ unparsed = NoStatement
       \/ sqlpc = "unparsed" /\ logical_plan = NoPlan /\ unparsed \in Statements
    /\ processed_plan = NoPlan
    /\ numbered = NoStatement
    /\ statement = NoStatement
    /\ sqlOut = NoResult
    /\ again = NoResult

\* let processed_plan = rewrite_subquery_column_identifiers(plan)?
RewritePlan ==
    /\ sqlpc = "called"
    /\ LET r == rewrite_subquery_column_identifiers(logical_plan)
       IN IF r.kind = "Err"
          THEN /\ sqlOut' = r
               /\ sqlpc' = "returned"
               /\ UNCHANGED processed_plan
          ELSE /\ processed_plan' = r.val
               /\ sqlpc' = "rewritten"
               /\ UNCHANGED sqlOut
    /\ UNCHANGED <<logical_plan, unparsed, numbered, statement, again>>

\* let mut statement = unparser.plan_to_sql(&processed_plan).map_err(...)?
Unparse ==
    /\ sqlpc = "rewritten"
    /\ LET r == plan_to_sql(processed_plan)
       IN IF r.kind = "Err"
          THEN /\ sqlOut' = r
               /\ sqlpc' = "returned"
               /\ UNCHANGED unparsed
          ELSE /\ unparsed' = r.val
               /\ sqlpc' = "unparsed"
               /\ UNCHANGED sqlOut
    /\ UNCHANGED <<logical_plan, processed_plan, numbered, statement, again>>

\* rewrite_row_number(&mut statement)
RewriteRowNumber ==
    /\ sqlpc = "unparsed"
    /\ numbered' = rewrite_row_number(unparsed)
    /\ sqlpc' = "numbered"
    /\ UNCHANGED <<logical_plan, processed_plan, unparsed, statement, sqlOut, again>>

\* rewrite_inf_and_nan(&mut statement)
RewriteInfAndNan ==
    /\ sqlpc = "numbered"
    /\ statement' = rewrite_inf_and_nan(numbered)
    /\ sqlpc' = "floated"
    /\ UNCHANGED <<logical_plan, processed_plan, unparsed, numbered, sqlOut, again>>

\* let spark_sql = statement.to_string(); Ok(spark_sql)
ReturnSql ==
    /\ sqlpc = "floated"
    /\ sqlOut' = Ok(to_string(statement))
    /\ sqlpc' = "returned"
    /\ UNCHANGED <<logical_plan, processed_plan, unparsed, numbered, statement, again>>

\* each rewrite is run once more, on what it returned
Reapply ==
    /\ sqlpc = "returned"
    /\ sqlOut.kind = "Ok"
    /\ again = NoResult
    /\ again' = [scrub |-> IF logical_plan = NoPlan THEN Ok(NoPlan)
                           ELSE rewrite_subquery_column_identifiers(processed_plan),
                 row_number |-> rewrite_row_number(numbered),
                 inf_and_nan_once |-> rewrite_inf_and_nan(unparsed),
                 inf_and_nan |-> rewrite_inf_and_nan(rewrite_inf_and_nan(unparsed)),
                 composed |-> rewrite_inf_and_nan(rewrite_row_number(statement))]
    /\ UNCHANGED <<sqlpc, logical_plan, processed_plan, unparsed, numbered, statement, sqlOut>>

SqlNext ==
    \/ RewritePlan /\ UNCHANGED <<pipeVars, taskVars>>
    \/ Unparse /\ UNCHANGED <<pipeVars, taskVars>>
    \/ RewriteRowNumber /\ UNCHANGED <<pipeVars, taskVars>>
    \/ RewriteInfAndNan /\ UNCHANGED <<pipeVars, taskVars>>
    \/ ReturnSql /\ UNCHANGED <<pipeVars, taskVars>>
    \/ Reapply /\ UNCHANGED <<pipeVars, taskVars>>

SqlSpec == SqlInit /\ [][SqlNext]_vars

(***************************************************************************)
(* Properties of the pipeline runner.                                      *)
(***************************************************************************)
HasOrder(df) == ORDER_COL \in df.columns

Failed == pc \in {"built", "returned"} /\ buildRes.kind = "Err"

\* the scope entry an emitted pair is bound to
ScopeValue(e) == IF e.var.ns = "Signal" THEN e.val.v ELSE ScopeDf(e.val.tag, e.val.v)

Lookup(cfg, var) ==
    IF var.ns = "Signal" THEN cfg.signal_scope[var.name] ELSE cfg.data_scope[var.name]

InScope(cfg, var) ==
    IF var.ns = "Signal" THEN var.name \in DOMAIN cfg.signal_scope
    ELSE var.name \in DOMAIN cfg.data_scope

\* cfg overlaid with the first n emitted pairs, in the order of emission
RECURSIVE Overlay(_, _)
Overlay(cfg, n) ==
    IF n = 0 THEN cfg
    ELSE LET c == Overlay(cfg, n - 1)
             e == emitted[n]
         IN IF e.var.ns = "Signal"
            THEN [c EXCEPT !.signal_scope = Put(@, e.var.name, ScopeValue(e))]
            ELSE [c EXCEPT !.data_scope = Put(@, e.var.name, ScopeValue(e))]

EmittedVars(n) == {emitted[j].var : j \in 1..n}

\* the last of the first n emitted pairs that is for var
Latest(var, n) ==
    CHOOSE j \in 1..n :
        /\ emitted[j].var = var
        /\ \A j2 \in 1..n : emitted[j2].var = var => j2 <= j

\* C1: every transform that is evaluated gets a DataFrame with the order column; a run on
\* an input without it fails with an internal error before any transform is evaluated;
\* when the output of transform i lacks it, the run fails with an internal error, no
\* later transform is evaluated and no value emitted by transform i is bound.
OrderColumnInvariant ==
    /\ \A i \in DOMAIN evalLog : HasOrder(evalLog[i].input)
    /\ (pc # "idle" /\ ~HasOrder(sql_df)) =>
            /\ evalLog = <<>>
            /\ emitted = <<>>
            /\ Failed
            /\ buildRes.err = "MissingOrderColumnInput"
    /\ \A i \in DOMAIN evalLog :
            (evalLog[i].res.kind = "Ok" /\ ~HasOrder(evalLog[i].res.val.df)) =>
                /\ i = Len(evalLog)
                /\ Failed
                /\ buildRes.err = "MissingOrderColumnOutput"
                /\ Len(emitted) = evalLog[i].before
                /\ config = evalLog[i].config
                /\ \A j \in DOMAIN emitted : emitted[j].tx < i

\* C1 witness: the second transform of a pipeline returned a DataFrame without the
\* order column after the first one had emitted a value
OrderColumnWitness ==
    /\ Len(evalLog) = 2
    /\ evalLog[2].res.kind = "Ok"
    /\ ~HasOrder(evalLog[2].res.val.df)
    /\ emitted # <<>>
    /\ pc = "returned"

\* a step of binding an emitted pair that returns an error
BindFails(e) ==
    \/ e.var.ns = "Signal" /\ e.val.tag # "Scalar"
    \/ e.var.ns = "Data" /\ e.val.tag = "Table" /\ ~e.registered

\* a step of binding an emitted pair that panics
BindPanics(e) ==
    \/ e.var.ns = "Data" /\ e.val.tag = "Scalar"
    \/ e.var.ns = "Scale"

\* the caller got an error and nothing else
OnlyError == pc = "returned" => (ret.res.kind = "Err" /\ ret.res = buildRes)

LatestInPipelineWins ==
    /\ buildRes.kind = "Ok" =>
            LET sig == buildRes.val.signals
                n == Len(emitted)
            IN /\ Len(sig) = Cardinality(EmittedVars(n))
               /\ Len(signal_vars) = Len(sig)
               /\ {signal_vars[i] : i \in DOMAIN signal_vars} = EmittedVars(n)
               /\ \A i \in DOMAIN sig : sig[i] = emitted[Latest(signal_vars[i], n)].val
               /\ (pc = "returned" /\ ret.res.kind = "Ok") => ret.res.val.signals = sig
    /\ \A i \in DOMAIN evalLog :
            \A v \in EmittedVars(evalLog[i].before) :
                /\ InScope(evalLog[i].config, v)
                /\ Lookup(evalLog[i].config, v)
                        = ScopeValue(emitted[Latest(v, evalLog[i].before)])

\* C3 witness: two transforms emitted different values for one variable and the run
\* returned its signals
LatestInPipelineWitness ==
    /\ pc = "returned"
    /\ ret.res.kind = "Ok"
    /\ Len(emitted) = 2
    /\ emitted[1].var = emitted[2].var
    /\ emitted[1].tx # emitted[2].tx
    /\ emitted[1].val # emitted[2].val

\* C4: the scope transform i is given is the caller's scope overlaid with the pairs
\* emitted by the transforms before i, all of them and no others.
SignalPropagation ==
    \A i \in DOMAIN evalLog :
        /\ evalLog[i].tx = i
        /\ evalLog[i].config = Overlay(callerCfg, evalLog[i].before)
        /\ \A j \in DOMAIN emitted : (j <= evalLog[i].before) <=> (emitted[j].tx < i)

\* C4 witness: the second transform is given a scope with the signal the first emitted
SignalPropagationWitness ==
    /\ Len(evalLog) = 2
    /\ evalLog[2].before = 1
    /\ emitted[1].var = Var("Signal", "b")
    /\ "b" \notin DOMAIN callerCfg.signal_scope
    /\ evalLog[2].config.signal_scope["b"] = emitted[1].val.v

\* C5: no step of a pipeline run changes the caller's config, and every run starts
\* from the caller's scope, whatever earlier runs with this config have bound.
ScopeIsolation ==
    [][/\ callerCfg' = callerCfg
       /\ (pc = "idle" /\ pc' # "idle") => config' = callerCfg]_vars

\* C5 witness: a run wrote to its scope, and a later run with the same config has its
\* first transform evaluated
ScopeIsolationWitness ==
    /\ earlier
    /\ Len(evalLog) >= 1
    /\ evalLog[1].config = callerCfg

\* C6: the variables of the returned values are in the order of their names.
SignalsSortedByName ==
    buildRes.kind = "Ok" =>
        \A i \in 1..(Len(signal_vars) - 1) :
            NameRank(signal_vars[i].name) <= NameRank(signal_vars[i + 1].name)

\* C7: the plan of the DataFrame of a successful run is the transforms of the pipeline
\* in order followed by one sort on the order column, ascending, nulls last; no
\* transform is evaluated on a plan with that sort in it.
FinalOrdering ==
    /\ buildRes.kind = "Ok" =>
            buildRes.val.df.ops =
                [i \in 1..Len(pipeline) |-> TxOp(i)] \o <<SortOp(ORDER_COL, TRUE, FALSE)>>
    /\ \A i \in DOMAIN evalLog :
            \A j \in DOMAIN evalLog[i].input.ops : evalLog[i].input.ops[j].op # "sort"
    /\ pc = "loop" => \A j \in DOMAIN result_sql_df.ops : result_sql_df.ops[j].op # "sort"

\* C7 witness: a run of two transforms succeeded
FinalOrderingWitness ==
    /\ pc = "built"
    /\ buildRes.kind = "Ok"
    /\ Len(pipeline) = 2

\* a pair of a variable with a value of the wrong type for its namespace
Mismatch(e) ==
    \/ e.var.ns = "Signal" /\ e.val.tag # "Scalar"
    \/ e.var.ns = "Data" /\ e.val.tag = "Scalar"

\* C8: every entry of signal_scope is the caller's or the scalar of an emitted Scalar;
\* every entry of data_scope is the caller's or comes from an emitted Table or
\* DataFrame; a mismatched pair is the last one of the run, which fails, and leaves
\* the scope as it was.
NamespaceValueType ==
    /\ \A n \in DOMAIN config.signal_scope :
            \/ n \in DOMAIN callerCfg.signal_scope
                    /\ config.signal_scope[n] = callerCfg.signal_scope[n]
            \/ \E j \in DOMAIN emitted :
                    /\ emitted[j].var = Var("Signal", n)
                    /\ emitted[j].val.tag = "Scalar"
                    /\ config.signal_scope[n] = emitted[j].val.v
    /\ \A n \in DOMAIN config.data_scope :
            \/ n \in DOMAIN callerCfg.data_scope
                    /\ config.data_scope[n] = callerCfg.data_scope[n]
            \/ \E j \in DOMAIN emitted :
                    /\ emitted[j].var = Var("Data", n)
                    /\ emitted[j].val.tag \in {"Table", "DataFrame"}
                    /\ config.data_scope[n] = ScopeDf(emitted[j].val.tag, emitted[j].val.v)
    /\ \A j \in DOMAIN emitted :
            Mismatch(emitted[j]) =>
                /\ j = Len(emitted)
                /\ pc \in {"built", "returned", "panicked"}
                /\ buildRes.kind \in {"Err", "Panic"}
                /\ config = Overlay(callerCfg, j - 1)

\* C8 witness: a transform emitted a Scalar for a Data variable after a signal was bound
NamespaceValueTypeWitness ==
    /\ Len(emitted) = 2
    /\ emitted[1].var.ns = "Signal"
    /\ emitted[2].var.ns = "Data"
    /\ emitted[2].val.tag = "Scalar"

\* C11: every plan that is materialized into a table is materialized by
\* PlanExecutor::execute_plan of the configured executor; the transform pipeline never
\* materializes a plan itself.
MaterializedByExecutor ==
    (pc = "returned" /\ ret.materialized_by # NotMaterialized) =>
        ret.materialized_by = "PlanExecutor::execute_plan"

\* the emitted variables in increasing order
KeysInOrder(n) ==
    CHOOSE s \in [1..Cardinality(EmittedVars(n)) -> EmittedVars(n)] :
        \A i, j \in DOMAIN s : i < j => VarLess(s[i], s[j])

\* the DataFrame the final sort is applied to
LastDf == IF evalLog = <<>> THEN sql_df ELSE evalLog[Len(evalLog)].res.val.df

\* C17: what a run returns is a function of the pipeline, the input and what the
\* transforms returned: the plan is the last transform's plan with the final sort, the
\* signals are the values emitted last for each variable, in the order of the variables,
\* whatever order the map of outputs is iterated in.
PipelineDeterminism ==
    buildRes.kind = "Ok" =>
        LET n == Len(emitted)
            keys == KeysInOrder(n)
        IN /\ signal_vars = keys
           /\ buildRes.val.signals = [i \in DOMAIN keys |-> emitted[Latest(keys[i], n)].val]
           /\ buildRes.val.df = Df(LastDf.columns, Append(LastDf.ops, FinalSort))

\* C17 witness: a run returned two signals whose variables were emitted in the
\* opposite of their order
PipelineDeterminismWitness ==
    /\ pc = "returned"
    /\ ret.res.kind = "Ok"
    /\ Len(signal_vars) = 2
    /\ Len(emitted) = 2
    /\ emitted[1].var = signal_vars[2]
    /\ emitted[2].var = signal_vars[1]

DeclaresScale(tx) == \E i \in DOMAIN tx.output_vars : tx.output_vars[i].ns = "Scale"

\* C18: a run whose transform declares an output in the Scale namespace is rejected
\* with an error returned to the caller like every other failure of the pipeline: no
\* binding is added to a scope and no output is returned.
ScaleOutputsRejected ==
    /\ \A j \in DOMAIN emitted :
            emitted[j].var.ns = "Scale" =>
                /\ Failed
                /\ config = Overlay(callerCfg, j - 1)
    /\ buildRes.kind = "Ok" => \A i \in DOMAIN pipeline : ~DeclaresScale(pipeline[i])

\* the pairs transform i emitted are emitted[EmittedFrom(i) + 1 .. EmittedUpTo(i)]
EmittedFrom(i) == evalLog[i].before
EmittedUpTo(i) == IF i < Len(evalLog) THEN evalLog[i + 1].before ELSE Len(emitted)

\* C19: a transform that declares n variables and returns m values binds variable j to
\* value j for j = 1..min(n, m), in increasing j; n # m is no error: the run goes on,
\* the variables after m get no binding and the values after n are dropped.
PositionalBinding ==
    /\ \A i \in DOMAIN evalLog :
            evalLog[i].res.kind = "Ok" =>
                LET n == Len(pipeline[i].output_vars)
                    m == evalLog[i].res.val.nvals
                    least == IF n < m THEN n ELSE m
                    bnd == EmittedUpTo(i) - EmittedFrom(i)
                IN /\ bnd <= least
                   /\ \A j \in 1..bnd :
                        /\ emitted[EmittedFrom(i) + j].tx = i
                        /\ emitted[EmittedFrom(i) + j].var = pipeline[i].output_vars[j]
                   /\ (i < Len(evalLog) \/ buildRes.kind = "Ok") => bnd = least
                   /\ (bnd < least /\ buildRes.kind \in {"Err", "Panic"}) =>
                        \/ ~HasOrder(evalLog[i].res.val.df)
                        \/ /\ bnd > 0
                           /\ \/ BindFails(emitted[Len(emitted)])
                              \/ BindPanics(emitted[Len(emitted)])
    /\ buildRes.kind = "Ok" => DOMAIN result_outputs = EmittedVars(Len(emitted))

\* C19 witness: a run returned its outputs after a transform that declares more
\* variables than it returned values and one that returned more values than it declares
PositionalBindingWitness ==
    /\ pc = "returned"
    /\ ret.res.kind = "Ok"
    /\ \E i \in DOMAIN evalLog :
            /\ evalLog[i].res.val.nvals >= 1
            /\ Len(pipeline[i].output_vars) > evalLog[i].res.val.nvals
    /\ \E i \in DOMAIN evalLog :
            Len(pipeline[i].output_vars) < evalLog[i].res.val.nvals

\* C20: eval_to_df returns what build_dataframe returned and materializes nothing;
\* eval_sql fails with the error of build_dataframe when it fails, and otherwise fails
\* only in the materialization; when it succeeds its signals are those of
\* build_dataframe, in the same order, and its table is the materialization of the
\* DataFrame build_dataframe returned, the one that ends with the final sort.
EvalSqlRefinesEvalToDf ==
    pc = "returned" =>
        /\ ret.entry = "eval_to_df" =>
                /\ ret.res = buildRes
                /\ ret.materialized_by = NotMaterialized
        /\ ret.entry = "eval_sql" =>
                /\ buildRes.kind = "Err" => ret.res = buildRes
                /\ (buildRes.kind = "Ok" /\ ret.res.kind = "Err") => ret.res.err = "Collect"
                /\ ret.res.kind = "Ok" =>
                        /\ buildRes.kind = "Ok"
                        /\ ret.res.val.signals = buildRes.val.signals
                        /\ ret.res.val.table = Collected(buildRes.val.df)
                        /\ buildRes.val.df.ops[Len(buildRes.val.df.ops)] = FinalSort
                        /\ Len(buildRes.val.df.ops) = Len(evalLog) + 1

\* C20 witness: eval_sql returned a table and two signals
EvalSqlRefinesWitness ==
    /\ pc = "returned"
    /\ ret.entry = "eval_sql"
    /\ ret.res.kind = "Ok"
    /\ Len(ret.res.val.signals) = 2
    /\ Len(evalLog) = 2

(***************************************************************************)
(* Properties of the task handlers.                                        *)
(***************************************************************************)
BothCalled == evalOut # NoResult /\ planOut # NoResult

\* C9: on a signal task, eval and plan succeed together; then eval returns the scalar
\* as a TaskValue, plan returns the same scalar as a TaskPlan, and neither returns a
\* side-output; otherwise both fail the same way.
PlanEvalAgreement ==
    (task.kind = "Signal" /\ BothCalled) =>
        /\ evalOut.kind = planOut.kind
        /\ evalOut.kind = "Ok" =>
                /\ evalOut.val[1].tag = "Scalar"
                /\ planOut.val[1].plan = "Scalar"
                /\ evalOut.val[1].v = planOut.val[1].v
                /\ evalOut.val[2] = <<>>
                /\ planOut.val[2] = <<>>
        /\ evalOut.kind # "Ok" => evalOut = planOut

\* C9 witness: eval and plan of a signal task that reads the timezone both succeeded
PlanEvalAgreementWitness ==
    /\ task.kind = "Signal"
    /\ task.expr = CallFn("timezoneoffset")
    /\ BothCalled
    /\ evalOut.kind = "Ok"

\* C10: whenever eval of a task succeeds, plan of the same task on the same inputs
\* succeeds, with a scalar where eval returns a scalar and a logical plan where eval
\* returns a table.
PlanSucceedsWhereEvalDoes ==
    (BothCalled /\ evalOut.kind = "Ok") =>
        /\ planOut.kind = "Ok"
        /\ evalOut.val[1].tag = "Scalar" => planOut.val[1].plan = "Scalar"
        /\ evalOut.val[1].tag = "Table" => planOut.val[1].plan = "Plan"

(***************************************************************************)
(* Properties of the Spark SQL transpiler.                                 *)
(***************************************************************************)
\* expression a is expression b with the plans of its subqueries scrubbed and, when
\* strip holds, with every column outside them without its qualifier
RECURSIVE ExprScrubbed(_, _, _), PlanScrubbed(_, _)
ExprScrubbed(b, a, strip) ==
    CASE b.e = "Column" ->
            /\ a.e = "Column"
            /\ a.name = b.name
            /\ a.relation = (IF strip THEN NoRelation ELSE b.relation)
      [] b.e = "BinaryExpr" ->
            /\ a.e = "BinaryExpr"
            /\ ExprScrubbed(b.left, a.left, strip)
            /\ ExprScrubbed(b.right, a.right, strip)
      [] b.e = "ScalarFunction" ->
            /\ a.e = "ScalarFunction"
            /\ Len(a.args) = Len(b.args)
            /\ \A i \in DOMAIN b.args : ExprScrubbed(b.args[i], a.args[i], strip)
      [] b.e = "WindowFunction" ->
            /\ a.e = "WindowFunction"
            /\ a.name = b.name
            /\ Len(a.partition_by) = Len(b.partition_by)
            /\ \A i \in DOMAIN b.partition_by :
                    ExprScrubbed(b.partition_by[i], a.partition_by[i], strip)
      [] b.e = "ScalarSubquery" ->
            /\ a.e = "ScalarSubquery"
            /\ PlanScrubbed(b.subquery, a.subquery)
      [] OTHER -> a = b

\* plan a has the shape of plan b; the columns of a projection whose input is a
\* projection have their name and no qualifier, and every other node has the
\* expressions it had
PlanScrubbed(b, a) ==
    /\ a.node = b.node
    /\ IF b.node \in {"Filter", "Projection"}
       THEN /\ PlanScrubbed(b.input, a.input)
            /\ Len(a.expr) = Len(b.expr)
            /\ \A i \in DOMAIN b.expr :
                    ExprScrubbed(b.expr[i], a.expr[i],
                                 b.node = "Projection" /\ b.input.node = "Projection")
       ELSE a = b

\* C12: in the plan rewrite_subquery_column_identifiers returns, every column of a
\* projection whose input is a projection has no qualifier and the name it had, in
\* chains of projections and inside subqueries too; every column of any other node
\* has the qualifier it had, and the plan has the shape it had.
SubqueryColumnsScrubbed ==
    processed_plan # NoPlan => PlanScrubbed(logical_plan, processed_plan)

\* C12 witness: a chain of three projections whose top one holds a subquery with a
\* projection on a projection was rewritten and transpiled
SubqueryColumnsScrubbedWitness ==
    /\ sqlpc = "returned"
    /\ sqlOut.kind = "Ok"
    /\ logical_plan.node = "Projection"
    /\ logical_plan.input.node = "Projection"
    /\ logical_plan.input.input.node = "Projection"
    /\ logical_plan.expr[1].e = "ScalarSubquery"
    /\ processed_plan.expr[1] # logical_plan.expr[1]
    /\ processed_plan.input # logical_plan.input

\* the names that are row_number whatever their case, and the texts that are a
\* non-finite number whatever their case
IsRowNumberName(name) == name \in {"row_number", "ROW_NUMBER", "Row_Number"}
IsNonFinite(text) ==
    text \in {"NaN", "nan", "Inf", "inf", "+Infinity", "-INF", "infinity", "-inf", "+inf"}

\* expression a is expression b after a rewrite: with rule "row_number" every
\* row_number function with a window specification has no frame and the one ORDER BY
\* element, with rule "inf_and_nan" every non-finite number is float('text'); all
\* the rest is as it was
RECURSIVE ExprRewritten(_, _, _), QueryRewritten(_, _, _)
ExprRewritten(rule, b, a) ==
    CASE b.ast = "Number" ->
            IF rule = "inf_and_nan" /\ IsNonFinite(b.text)
            THEN a = [ast |-> "Function", name |-> "float",
                      args |-> <<[ast |-> "SingleQuotedString", text |-> b.text,
                                  span |-> b.span]>>,
                      over |-> [window |-> "None"]]
            ELSE a = b
      [] b.ast = "BinaryOp" ->
            /\ a.ast = "BinaryOp"
            /\ ExprRewritten(rule, b.left, a.left)
            /\ ExprRewritten(rule, b.right, a.right)
      [] b.ast = "Subquery" ->
            /\ a.ast = "Subquery"
            /\ QueryRewritten(rule, b.query, a.query)
      [] b.ast = "Function" ->
            /\ a.ast = "Function"
            /\ a.name = b.name
            /\ Len(a.args) = Len(b.args)
            /\ \A i \in DOMAIN b.args : ExprRewritten(rule, b.args[i], a.args[i])
            /\ IF b.over.window # "WindowSpec" THEN a.over = b.over
               ELSE /\ a.over.window = "WindowSpec"
                    /\ Len(a.over.partition_by) = Len(b.over.partition_by)
                    /\ \A i \in DOMAIN b.over.partition_by :
                            ExprRewritten(rule, b.over.partition_by[i], a.over.partition_by[i])
                    /\ IF rule = "row_number" /\ IsRowNumberName(b.name)
                       THEN /\ a.over.window_frame = "None"
                            /\ a.over.order_by =
                                    <<[expr |-> [ast |-> "Identifier",
                                                 value |-> "monotonically_increasing_id()"],
                                       asc |-> "None", nulls_first |-> "None"]>>
                       ELSE /\ a.over.window_frame = b.over.window_frame
                            /\ Len(a.over.order_by) = Len(b.over.order_by)
                            /\ \A i \in DOMAIN b.over.order_by :
                                    /\ a.over.order_by[i].asc = b.over.order_by[i].asc
                                    /\ a.over.order_by[i].nulls_first
                                            = b.over.order_by[i].nulls_first
                                    /\ ExprRewritten(rule, b.over.order_by[i].expr,
                                                     a.over.order_by[i].expr)
      [] OTHER -> a = b

QueryRewritten(rule, b, a) ==
    /\ a.body = b.body
    /\ Len(a.projection) = Len(b.projection)
    /\ \A i \in DOMAIN b.projection : ExprRewritten(rule, b.projection[i], a.projection[i])
    /\ Len(a.selection) = Len(b.selection)
    /\ \A i \in DOMAIN b.selection : ExprRewritten(rule, b.selection[i], a.selection[i])
    /\ IF b.from.relation = "Derived"
       THEN /\ a.from.relation = "Derived"
            /\ QueryRewritten(rule, b.from.subquery, a.from.subquery)
       ELSE a.from = b.from

\* the numeric literals and the functions of an expression and of a statement
RECURSIVE ExprsOf(_), ExprsOfQuery(_)
ExprsOf(x) ==
    {x} \cup
    CASE x.ast = "BinaryOp" -> ExprsOf(x.left) \cup ExprsOf(x.right)
      [] x.ast = "Subquery" -> ExprsOfQuery(x.query)
      [] x.ast = "Function" ->
            UNION {ExprsOf(x.args[i]) : i \in DOMAIN x.args}
            \cup (IF x.over.window = "WindowSpec"
                  THEN UNION {ExprsOf(x.over.partition_by[i]) : i \in DOMAIN x.over.partition_by}
                       \cup UNION {ExprsOf(x.over.order_by[i].expr) : i \in DOMAIN x.over.order_by}
                  ELSE {})
      [] OTHER -> {}

ExprsOfQuery(q) ==
    UNION {ExprsOf(q.projection[i]) : i \in DOMAIN q.projection}
    \cup UNION {ExprsOf(q.selection[i]) : i \in DOMAIN q.selection}
    \cup (IF q.from.relation = "Derived" THEN ExprsOfQuery(q.from.subquery) ELSE {})

\* C13: after rewrite_row_number every function named row_number in any case that
\* has a window specification has no window frame and exactly the ORDER BY element
\* monotonically_increasing_id() with no asc and no nulls option, and the PARTITION BY
\* it had; every other expression (a function of another name, a row_number with no
\* OVER or with a named window) is as it was.
RowNumberRewritten ==
    numbered # NoStatement => QueryRewritten("row_number", unparsed, numbered)

\* C13 witness: an upper-case ROW_NUMBER with a PARTITION BY, two ORDER BY elements
\* and a frame was rewritten
RowNumberRewrittenWitness ==
    /\ numbered # NoStatement
    /\ Len(unparsed.projection) = 1
    /\ unparsed.projection[1].ast = "Function"
    /\ unparsed.projection[1].name = "ROW_NUMBER"
    /\ unparsed.projection[1].over.window = "WindowSpec"
    /\ Len(unparsed.projection[1].over.partition_by) = 1
    /\ Len(unparsed.projection[1].over.order_by) = 2
    /\ unparsed.projection[1].over.window_frame # NoFrame
    /\ numbered # unparsed

\* C14: after rewrite_inf_and_nan no numeric literal whose lower-cased text is one of
\* nan, inf, infinity, +inf, +infinity, -inf, -infinity is left in the statement; each
\* is replaced where it was by float('text') with the text and the span it had; every
\* other expression is as it was.
NonFiniteRewritten ==
    statement # NoStatement =>
        /\ QueryRewritten("inf_and_nan", numbered, statement)
        /\ \A x \in ExprsOfQuery(statement) : x.ast = "Number" => ~IsNonFinite(x.text)

\* C14 witness: a statement with -INF inside a function call, inside a subquery of a
\* derived table, and +inf in its WHERE was rewritten
NonFiniteRewrittenWitness ==
    /\ statement # NoStatement
    /\ numbered.from.relation = "Derived"
    /\ \E x \in ExprsOfQuery(numbered.from.subquery) : x.ast = "Number" /\ x.text = "-INF"
    /\ \E x \in ExprsOfQuery(numbered) : x.ast = "Number" /\ x.text = "+inf" /\ x.span = 2
    /\ statement # numbered

\* C15: a failure of the rewrite of the plan and a failure of the unparser are
\* reported as errors of two kinds that tell them apart; either way no SQL is
\* returned and the rewrites of the statement are not run.
TranspileErrorKinds ==
    (sqlpc = "returned" /\ sqlOut.kind = "Err") =>
        /\ (sqlOut.err.error = "unparser") <=> (processed_plan # NoPlan)
        /\ unparsed = NoStatement
        /\ numbered = NoStatement
        /\ statement = NoStatement

\* C16: each rewrite run on what it returned returns it unchanged: the rewrite of the
\* plan, rewrite_row_number, rewrite_inf_and_nan, and the two rewrites of the
\* statement one after the other.
RewritesIdempotent ==
    again # NoResult =>
        /\ logical_plan # NoPlan => again.scrub = Ok(processed_plan)
        /\ again.row_number = numbered
        /\ again.inf_and_nan = again.inf_and_nan_once
        /\ again.composed = statement

\* C16 witness: a plan whose three rewrites each changed something was transpiled and
\* the rewrites were run again
RewritesIdempotentWitness ==
    /\ again # NoResult
    /\ logical_plan # NoPlan
    /\ processed_plan # logical_plan
    /\ numbered # unparsed
    /\ statement # numbered

====
